---- MODULE Spec2Model ----
(***************************************************************************)
(* A model of the personal workflow tracker: the Streamlit dashboard       *)
(* (app.py) and the command-line tool (scripts/workflow_cli.py), which     *)
(* both keep the task list in data/tasks.csv and rewrite the whole file on *)
(* every mutation.                                                         *)
(*                                                                         *)
(* Text is modelled as a sequence of one-character strings, so that the    *)
(* conversions of the code (str, int, str.isdigit, str.strip, strptime,    *)
(* date.isoformat) are computed and not assumed.                           *)
(***************************************************************************)
EXTENDS Integers, Sequences, FiniteSets, TLC

VARIABLES
    file,    \* data/tasks.csv: whether it exists, and its rows below the header
    today,   \* dt.date.today()
    last,    \* what the last completed operation was given and what it reported
    local,   \* per process of the two-process specification: its operation in flight
    clock    \* history: number of file accesses made by the processes so far

vars == <<file, today, last, local, clock>>

----------------------------------------------------------------------------
(* Bounds of the model. *)

\* add is not offered once the store holds this many tasks
MaxTasks == 2
\* add is not offered once next_id would exceed this
MaxId == 2
\* tasks in a store of the view specification's initial states
MaxViewTasks == 2
\* the calendar advances at most this many days
MaxDays == 1

----------------------------------------------------------------------------
(* Text. *)

DigitSeq == <<"0", "1", "2", "3", "4", "5", "6", "7", "8", "9">>

\* the characters int() and strptime's \d accept (ASCII only in this model)
Digits == {DigitSeq[i] : i \in 1..10}

\* a character for which str.isdigit() is true and which int() rejects,
\* such as SUPERSCRIPT TWO
OtherDigits == {"sup2"}

Whitespace == {" "}

DigitVal(c) == (CHOOSE i \in 1..10 : DigitSeq[i] = c) - 1

\* str.isdigit(): non-empty and every character is a digit character
isdigit(s) == Len(s) > 0 /\ \A i \in 1..Len(s) : s[i] \in Digits \cup OtherDigits

\* whether int(s) returns rather than raises ValueError, for the texts that
\* reach it here (those isdigit let through, and strptime's matches)
int_ok(s) == Len(s) > 0 /\ \A i \in 1..Len(s) : s[i] \in Digits

RECURSIVE int(_)
int(s) ==
    IF s = <<>> THEN 0
    ELSE int(SubSeq(s, 1, Len(s) - 1)) * 10 + DigitVal(s[Len(s)])

RECURSIVE str(_)
str(n) ==
    IF n < 10 THEN <<DigitSeq[n + 1]>>
    ELSE str(n \div 10) \o <<DigitSeq[(n % 10) + 1]>>

RECURSIVE lstrip(_)
lstrip(s) ==
    IF s # <<>> /\ s[1] \in Whitespace THEN lstrip(Tail(s)) ELSE s

RECURSIVE rstrip(_)
rstrip(s) ==
    IF s # <<>> /\ s[Len(s)] \in Whitespace
    THEN rstrip(SubSeq(s, 1, Len(s) - 1)) ELSE s

strip(s) == rstrip(lstrip(s))

\* an optional argument: None, or a text
None == [some |-> FALSE, v |-> <<>>]
Some(t) == [some |-> TRUE, v |-> t]

\* Python's `x or ""`
or_empty(o) == IF o.some /\ o.v # <<>> THEN o.v ELSE <<>>

----------------------------------------------------------------------------
(* Dates. A date object is [y, m, d]; NoDate stands for None. *)

NoDate == [y |-> 0, m |-> 0, d |-> 0]

IsLeap(y) == (y % 4 = 0) /\ ((y % 100 # 0) \/ (y % 400 = 0))

DaysInMonth(y, m) ==
    IF m = 2 THEN (IF IsLeap(y) THEN 29 ELSE 28)
    ELSE IF m \in {4, 6, 9, 11} THEN 30 ELSE 31

\* what datetime's constructor accepts
ValidDate(y, m, d) ==
    /\ y >= 1 /\ y <= 9999
    /\ m >= 1 /\ m <= 12
    /\ d >= 1 /\ d <= DaysInMonth(y, m)

Pad(n, w) ==
    LET s == str(n)
    IN  [i \in 1..(w - Len(s)) |-> "0"] \o s

\* date.isoformat()
isoformat(dt) == Pad(dt.y, 4) \o <<"-">> \o Pad(dt.m, 2) \o <<"-">> \o Pad(dt.d, 2)

\* Python's `d.isoformat() if d else ""`
isoformat_or_empty(dt) == IF dt = NoDate THEN <<>> ELSE isoformat(dt)

At(s, i) == IF i >= 1 /\ i <= Len(s) THEN s[i] ELSE "eos"

\* length of the month directive's match at position i: 1[0-2]|0[1-9]|[1-9]
MonthLen(s, i) ==
    IF At(s, i) = "1" /\ At(s, i + 1) \in {"0", "1", "2"} THEN 2
    ELSE IF At(s, i) = "0" /\ At(s, i + 1) \in Digits \ {"0"} THEN 2
    ELSE IF At(s, i) \in Digits \ {"0"} THEN 1
    ELSE 0

\* length of the day directive's match: 3[01]|[12]\d|0[1-9]|[1-9]| [1-9]
DayLen(s, i) ==
    IF At(s, i) = "3" /\ At(s, i + 1) \in {"0", "1"} THEN 2
    ELSE IF At(s, i) \in {"1", "2"} /\ At(s, i + 1) \in Digits THEN 2
    ELSE IF At(s, i) = "0" /\ At(s, i + 1) \in Digits \ {"0"} THEN 2
    ELSE IF At(s, i) \in Digits \ {"0"} THEN 1
    ELSE IF At(s, i) = " " /\ At(s, i + 1) \in Digits \ {"0"} THEN 2
    ELSE 0

\* int() of the text a directive matched (a leading blank is accepted)
FieldVal(s, i, n) == int(lstrip(SubSeq(s, i, i + n - 1)))

\* datetime.strptime(value, "%Y-%m-%d").date(), NoDate where it raises
strptime(s) ==
    IF ~ (\A i \in 1..4 : At(s, i) \in Digits) \/ At(s, 5) # "-" THEN NoDate
    ELSE LET ml == MonthLen(s, 6)
         IN  IF ml = 0 \/ At(s, 6 + ml) # "-" THEN NoDate
             ELSE LET ds == 7 + ml
                      dl == DayLen(s, ds)
                  IN  IF dl = 0 \/ ds + dl - 1 # Len(s) THEN NoDate
                      ELSE LET y == FieldVal(s, 1, 4)
                               m == FieldVal(s, 6, ml)
                               d == FieldVal(s, ds, dl)
                           IN  IF ValidDate(y, m, d)
                               THEN [y |-> y, m |-> m, d |-> d]
                               ELSE NoDate

\* parse_date of the dashboard
parse_date(value) == IF value = <<>> THEN NoDate ELSE strptime(value)

\* parse_date of the command-line tool
cli_parse_date(value) == IF value = <<>> THEN NoDate ELSE strptime(value)

\* d1 < d2 on date objects
DateLt(d1, d2) ==
    \/ d1.y < d2.y
    \/ d1.y = d2.y /\ d1.m < d2.m
    \/ d1.y = d2.y /\ d1.m = d2.m /\ d1.d < d2.d

DateLe(d1, d2) == d1 = d2 \/ DateLt(d1, d2)

\* the day after dt
NextDate(dt) ==
    IF dt.d < DaysInMonth(dt.y, dt.m) THEN [dt EXCEPT !.d = dt.d + 1]
    ELSE IF dt.m < 12 THEN [y |-> dt.y, m |-> dt.m + 1, d |-> 1]
    ELSE [y |-> dt.y + 1, m |-> 1, d |-> 1]

----------------------------------------------------------------------------
(* The task store. *)

FIELDNAMES ==
    <<"id", "title", "priority", "status", "due_date", "created_date",
      "person", "waiting_on", "follow_up_date", "notes">>

FieldSet == {FIELDNAMES[j] : j \in 1..Len(FIELDNAMES)}

\* the column of a field
Col == [k \in FieldSet |-> CHOOSE j \in 1..Len(FIELDNAMES) : FIELDNAMES[j] = k]

PRIORITIES == {"P1", "P2", "P3"}

STATUSES == {"todo", "in_progress", "waiting", "done"}

\* no data/tasks.csv yet
NoFile == [exists |-> FALSE, rows |-> <<>>]

\* ensure_file(): a missing file is created with the header and no row
ensure_file(f) == IF f.exists THEN f ELSE [exists |-> TRUE, rows |-> <<>>]

\* read_tasks(): csv.DictReader keys each row by the header, in file order
read_tasks(f) ==
    LET g == ensure_file(f)
    IN  [i \in 1..Len(g.rows) |-> [k \in FieldSet |-> g.rows[i][Col[k]]]]

\* write_tasks(tasks): the header, then one row per task in FIELDNAMES order
write_tasks(tasks) ==
    [exists |-> TRUE,
     rows   |-> [i \in 1..Len(tasks) |->
                    [j \in 1..Len(FIELDNAMES) |-> tasks[i][FIELDNAMES[j]]]]]

SetMax(S) == CHOOSE x \in S : \A y \in S : y <= x

SetMin(S) == CHOOSE x \in S : \A y \in S : x <= y

Returned(n) == [err |-> "none", val |-> n]

Raised(e) == [err |-> e, val |-> 0]

\* a next_id that counts the tasks instead of looking at their ids
next_id_by_count(tasks) == Returned(Len(tasks) + 1)

\* next_id of the dashboard
next_id(tasks) ==
    IF tasks = <<>> THEN Returned(1)
    ELSE LET numeric == {i \in 1..Len(tasks) : isdigit(tasks[i].id)}
         IN  IF \E i \in numeric : ~ int_ok(tasks[i].id) THEN Raised("ValueError")
             ELSE IF numeric # {}
                  THEN Returned(SetMax({int(tasks[i].id) : i \in numeric}) + 1)
                  ELSE Returned(1)

\* the command-line tool's next_id, counting the tasks
cli_next_id_by_count(tasks) == Returned(Len(tasks) + 1)

\* next_id of the command-line tool: max() of an empty generator raises
cli_next_id(tasks) ==
    IF tasks = <<>> THEN Returned(1)
    ELSE LET numeric == {i \in 1..Len(tasks) : isdigit(tasks[i].id)}
         IN  IF \E i \in numeric : ~ int_ok(tasks[i].id) THEN Raised("ValueError")
             ELSE IF numeric = {} THEN Raised("ValueError")
                  ELSE Returned(SetMax({int(tasks[i].id) : i \in numeric}) + 1)

\* what a handler did: the collection it holds at its end, the id it was about,
\* whether it reported success, the error it reported, whether it wrote the file
Outcome(tasks, id, ok, err, wrote) ==
    [tasks |-> tasks, id |-> id, ok |-> ok, err |-> err, wrote |-> wrote]

\* the dashboard's add form, submitted with the inputs a, on the tasks the
\* script read when it started
add_task_form(tasks, a, day) ==
    IF strip(a.title) = <<>>
    THEN Outcome(tasks, <<>>, FALSE, "ValidationError", FALSE)
    ELSE LET n == next_id(tasks)
         IN  IF n.err # "none" THEN Outcome(tasks, <<>>, FALSE, n.err, FALSE)
             ELSE LET new_task ==
                          [id             |-> str(n.val),
                           title          |-> strip(a.title),
                           priority       |-> a.priority,
                           status         |-> a.status,
                           due_date       |-> isoformat_or_empty(a.due),
                           created_date   |-> isoformat(day),
                           person         |-> IF a.person # <<>> THEN strip(a.person) ELSE <<>>,
                           waiting_on     |-> <<>>,
                           follow_up_date |-> isoformat_or_empty(a.follow_up),
                           notes          |-> IF a.notes # <<>> THEN strip(a.notes) ELSE <<>>]
                  IN  Outcome(Append(tasks, new_task), new_task.id, TRUE, "none", TRUE)

\* add_task of the command-line tool
add_task(tasks, args, day) ==
    LET n == cli_next_id(tasks)
    IN  IF n.err # "none" THEN Outcome(tasks, <<>>, FALSE, n.err, FALSE)
        ELSE LET task ==
                     [id             |-> str(n.val),
                      title          |-> args.title,
                      priority       |-> args.priority,
                      status         |-> args.status,
                      due_date       |-> or_empty(args.due),
                      created_date   |-> isoformat(day),
                      person         |-> or_empty(args.person),
                      waiting_on     |-> or_empty(args.waiting_on),
                      follow_up_date |-> or_empty(args.follow_up),
                      notes          |-> or_empty(args.notes)]
             IN  Outcome(Append(tasks, task), task.id, TRUE, "none", TRUE)

\* a mark_done whose assignment is outside the test of the id
mark_done_every_task(tasks, task_id) ==
    LET hits == {i \in 1..Len(tasks) : tasks[i].id = task_id}
    IN  IF hits = {} THEN Outcome(tasks, task_id, FALSE, "NotFound", FALSE)
        ELSE Outcome([i \in 1..Len(tasks) |-> [tasks[i] EXCEPT !.status = "done"]],
                     task_id, TRUE, "none", TRUE)

\* mark_done of the dashboard: the first task with the id
mark_done(tasks, task_id) ==
    LET hits == {i \in 1..Len(tasks) : tasks[i].id = task_id}
    IN  IF hits = {} THEN Outcome(tasks, task_id, FALSE, "NotFound", FALSE)
        ELSE Outcome([tasks EXCEPT ![SetMin(hits)].status = "done"],
                     task_id, TRUE, "none", TRUE)

\* a command-line mark_done that also clears the follow-up date
cli_mark_done_clearing(tasks, n) ==
    LET target == str(n)
        hits == {i \in 1..Len(tasks) : tasks[i].id = target}
    IN  IF hits = {} THEN Outcome(tasks, target, FALSE, "NotFound", FALSE)
        ELSE Outcome([tasks EXCEPT ![SetMin(hits)].status = "done",
                                   ![SetMin(hits)].follow_up_date = <<>>],
                     target, TRUE, "none", TRUE)

\* mark_done of the command-line tool: the id argument is an int
cli_mark_done(tasks, n) ==
    LET target == str(n)
        hits == {i \in 1..Len(tasks) : tasks[i].id = target}
    IN  IF hits = {} THEN Outcome(tasks, target, FALSE, "NotFound", FALSE)
        ELSE Outcome([tasks EXCEPT ![SetMin(hits)].status = "done"],
                     target, TRUE, "none", TRUE)

\* a delete_task that compares ids as numbers with <= instead of !=
delete_task_upto(tasks, task_id) ==
    LET keep(t) == ~ (int(t.id) <= int(task_id))
        kept == SelectSeq(tasks, keep)
    IN  IF Len(kept) = Len(tasks) THEN Outcome(tasks, task_id, FALSE, "NotFound", FALSE)
        ELSE Outcome(kept, task_id, TRUE, "none", TRUE)

\* delete_task of the dashboard: every task with the id goes
delete_task(tasks, task_id) ==
    LET keep(t) == t.id # task_id
        kept == SelectSeq(tasks, keep)
    IN  IF Len(kept) = Len(tasks) THEN Outcome(tasks, task_id, FALSE, "NotFound", FALSE)
        ELSE Outcome(kept, task_id, TRUE, "none", TRUE)

----------------------------------------------------------------------------
(* The read-only operations. *)

\* the dashboard's aggregation, run by the script on every interaction
dashboard_view(tasks, day) ==
    LET is_open(t) == t.status # "done"
        open_tasks == SelectSeq(tasks, is_open)
        is_p1(t) == t.priority = "P1"
        is_due_today(t) ==
            LET d == parse_date(t.due_date) IN d # NoDate /\ d = day
        is_overdue(t) ==
            LET d == parse_date(t.due_date) IN d # NoDate /\ DateLt(d, day)
        is_waiting(t) == t.status = "waiting"
        is_followup(t) ==
            LET d == parse_date(t.follow_up_date) IN d # NoDate /\ DateLe(d, day)
    IN  [open_tasks |-> open_tasks,
         p1_tasks   |-> SelectSeq(open_tasks, is_p1),
         due_today  |-> SelectSeq(open_tasks, is_due_today),
         overdue    |-> SelectSeq(open_tasks, is_overdue),
         waiting    |-> SelectSeq(open_tasks, is_waiting),
         followups  |-> SelectSeq(open_tasks, is_followup)]

\* the command-line dashboard with overdue tested by <= today
dashboard_overdue_le(tasks, day) ==
    LET is_open(t) == t.status # "done"
        open_tasks == SelectSeq(tasks, is_open)
        is_overdue(t) ==
            LET d == cli_parse_date(t.due_date) IN d # NoDate /\ DateLe(d, day)
        is_due_today(t) ==
            LET d == cli_parse_date(t.due_date) IN d # NoDate /\ d = day
        is_waiting(t) == t.status = "waiting"
        is_p1(t) == t.priority = "P1"
        is_followup(t) ==
            LET d == cli_parse_date(t.follow_up_date) IN d # NoDate /\ DateLe(d, day)
    IN  [open_tasks |-> open_tasks,
         p1_tasks   |-> SelectSeq(open_tasks, is_p1),
         due_today  |-> SelectSeq(open_tasks, is_due_today),
         overdue    |-> SelectSeq(open_tasks, is_overdue),
         waiting    |-> SelectSeq(open_tasks, is_waiting),
         followups  |-> SelectSeq(open_tasks, is_followup)]

\* dashboard of the command-line tool
dashboard(tasks, day) ==
    LET is_open(t) == t.status # "done"
        open_tasks == SelectSeq(tasks, is_open)
        is_overdue(t) ==
            LET d == cli_parse_date(t.due_date) IN d # NoDate /\ DateLt(d, day)
        is_due_today(t) ==
            LET d == cli_parse_date(t.due_date) IN d # NoDate /\ d = day
        is_waiting(t) == t.status = "waiting"
        is_p1(t) == t.priority = "P1"
        is_followup(t) ==
            LET d == cli_parse_date(t.follow_up_date) IN d # NoDate /\ DateLe(d, day)
    IN  [open_tasks |-> open_tasks,
         p1_tasks   |-> SelectSeq(open_tasks, is_p1),
         due_today  |-> SelectSeq(open_tasks, is_due_today),
         overdue    |-> SelectSeq(open_tasks, is_overdue),
         waiting    |-> SelectSeq(open_tasks, is_waiting),
         followups  |-> SelectSeq(open_tasks, is_followup)]

\* an option of the command line that was not given (None is falsy, as "" is)
NoChoice == ""

\* a list_tasks whose priority filter is an elif of the status filter
list_tasks_elif(tasks, status, priority) ==
    LET has_status(t) == t.status = status
        has_priority(t) == t.priority = priority
    IN  IF status # NoChoice THEN SelectSeq(tasks, has_status)
        ELSE IF priority # NoChoice THEN SelectSeq(tasks, has_priority)
        ELSE tasks

\* list_tasks of the command-line tool: the rows it prints
list_tasks(tasks, status, priority) ==
    LET has_status(t) == t.status = status
        has_priority(t) == t.priority = priority
        by_status == IF status # NoChoice THEN SelectSeq(tasks, has_status) ELSE tasks
    IN  IF priority # NoChoice THEN SelectSeq(by_status, has_priority) ELSE by_status

----------------------------------------------------------------------------
(* Inputs. *)

Day0 == [y |-> 2024, m |-> 2, d |-> 28]

RECURSIVE DayN(_)
DayN(n) == IF n = 0 THEN Day0 ELSE NextDate(DayN(n - 1))

Text_0228 == <<"2", "0", "2", "4", "-", "0", "2", "-", "2", "8">>
Text_0229 == <<"2", "0", "2", "4", "-", "0", "2", "-", "2", "9">>
Text_0230 == <<"2", "0", "2", "4", "-", "0", "2", "-", "3", "0">>
Text_2_29 == <<"2", "0", "2", "4", "-", "2", "-", "2", "9">>
Text_soon == <<"s", "o", "o", "n">>

\* what the dashboard's form can be submitted with
AppAddInputs ==
    {[title |-> <<"a">>, priority |-> "P2", status |-> "todo", due |-> NoDate,
      person |-> <<>>, follow_up |-> NoDate, notes |-> <<>>],
     [title |-> <<" ", "b", " ">>, priority |-> "P1", status |-> "waiting",
      due |-> DayN(1), person |-> <<"c", " ">>, follow_up |-> Day0, notes |-> <<>>],
     [title |-> <<" ">>, priority |-> "P2", status |-> "todo", due |-> NoDate,
      person |-> <<>>, follow_up |-> NoDate, notes |-> <<>>],
     [title |-> <<>>, priority |-> "P2", status |-> "todo", due |-> NoDate,
      person |-> <<>>, follow_up |-> NoDate, notes |-> <<>>]}

\* what the command line's add can be given
CliAddInputs ==
    {[title |-> <<"a">>, priority |-> "P2", status |-> "todo", due |-> None,
      person |-> None, waiting_on |-> None, follow_up |-> None, notes |-> None],
     [title |-> <<" ", "b", " ">>, priority |-> "P1", status |-> "in_progress",
      due |-> Some(Text_2_29), person |-> Some(<<>>), waiting_on |-> Some(<<"c">>),
      follow_up |-> Some(Text_soon), notes |-> None],
     [title |-> <<" ">>, priority |-> "P2", status |-> "todo", due |-> None,
      person |-> None, waiting_on |-> None, follow_up |-> None, notes |-> None],
     [title |-> <<>>, priority |-> "P3", status |-> "done", due |-> None,
      person |-> None, waiting_on |-> None, follow_up |-> None, notes |-> None]}

\* ids a caller can hand to mark_done and delete_task
IdInputs == 1..MaxId

----------------------------------------------------------------------------
(* Operations run one at a time: each action is a whole handler, from its  *)
(* read of the file to its write.                                          *)

Idle == [pc |-> "idle", op |-> "none", arg |-> <<>>, snap |-> <<>>,
         res |-> Outcome(<<>>, <<>>, FALSE, "none", FALSE),
         loadedAt |-> 0, savedAt |-> 0]

\* what an operation was given and what it reported; follows is history kept
\* for add alone: the id that the operation just before it deleted, if it did
Report(op, ep, title, r, out) ==
    [op |-> op, ep |-> ep, id |-> r.id, title |-> title, ok |-> r.ok,
     err |-> r.err, wrote |-> r.wrote, out |-> out, follows |-> <<>>]

AddReport(ep, title, r, before) ==
    [Report("add", ep, title, r, <<>>) EXCEPT
        !.follows = IF before.op = "delete" /\ before.ok THEN before.id ELSE <<>>]

NoReport ==
    Report("none", "none", <<>>, Outcome(<<>>, <<>>, TRUE, "none", FALSE), <<>>)

\* the file after a handler that read it: rewritten, or merely ensured
Commit(f, r) == IF r.wrote THEN write_tasks(r.tasks) ELSE ensure_file(f)

\* the stored collection
Stored == read_tasks(file)

\* room left under the bounds for one more task
CanGrow(tasks, n) ==
    /\ Len(tasks) < MaxTasks
    /\ n.err = "none" => n.val <= MaxId

AppAdd ==
    \E a \in AppAddInputs :
        LET tasks == read_tasks(file)
            r == add_task_form(tasks, a, today)
        IN  /\ CanGrow(tasks, next_id(tasks))
            /\ file' = Commit(file, r)
            /\ last' = AddReport("app", a.title, r, last)
            /\ UNCHANGED <<today, local, clock>>

CliAdd ==
    \E args \in CliAddInputs :
        LET tasks == read_tasks(file)
            r == add_task(tasks, args, today)
        IN  /\ CanGrow(tasks, cli_next_id(tasks))
            /\ file' = Commit(file, r)
            /\ last' = AddReport("cli", args.title, r, last)
            /\ UNCHANGED <<today, local, clock>>

\* mark_done(task_id) of the dashboard; its Done buttons call it with the id
\* of a task shown, the operation itself takes any id
AppMarkDone ==
    \E n \in IdInputs :
        LET r == mark_done(read_tasks(file), str(n))
        IN  /\ file' = Commit(file, r)
            /\ last' = Report("done", "app", <<>>, r, <<>>)
            /\ UNCHANGED <<today, local, clock>>

CliMarkDone ==
    \E n \in IdInputs :
        LET r == cli_mark_done(read_tasks(file), n)
        IN  /\ file' = Commit(file, r)
            /\ last' = Report("done", "cli", <<>>, r, <<>>)
            /\ UNCHANGED <<today, local, clock>>

AppDelete ==
    \E n \in IdInputs :
        LET r == delete_task(read_tasks(file), str(n))
        IN  /\ file' = Commit(file, r)
            /\ last' = Report("delete", "app", <<>>, r, <<>>)
            /\ UNCHANGED <<today, local, clock>>

\* midnight passes
NextDay ==
    /\ \E k \in 0..(MaxDays - 1) : today = DayN(k)
    /\ today' = NextDate(today)
    /\ UNCHANGED <<file, last, local, clock>>

Procs == {"app", "cli"}

Init ==
    /\ file = NoFile
    /\ today = Day0
    /\ last = NoReport
    /\ local = [p \in Procs |-> Idle]
    /\ clock = 0

Next ==
    \/ AppAdd
    \/ CliAdd
    \/ AppMarkDone
    \/ CliMarkDone
    \/ AppDelete
    \/ NextDay

Spec == Init /\ [][Next]_vars

----------------------------------------------------------------------------
(* Properties of operations run one at a time, from no file at all.        *)

\* the step just taken completed the operation op (midnight reports nothing)
Did(op) == last'.op = op /\ today' = today

Before == read_tasks(file)

After == read_tasks(file')

\* C1: after any sequence of add, mark_done and delete run one at a time
\* from an empty store, no two stored tasks have the same id.
C1_UniqueIds ==
    \A i, j \in 1..Len(Stored) : i # j => Stored[i].id # Stored[j].id

\* two tasks are stored: the first marked done, the second added on a later
\* day, directly after a delete, under the id that delete had freed
C1_Witness ==
    /\ Len(Stored) = 2
    /\ last.op = "add" /\ last.ok
    /\ Stored[2].id = last.id
    /\ last.follows = last.id
    /\ Stored[1].status = "done"
    /\ Stored[1].created_date # Stored[2].created_date

\* C3 (as claimed): an add whose title is empty or blank fails validation and
\* writes nothing, from the dashboard and from the command line alike.
C3_BlankTitleRejected ==
    [][(Did("add") /\ strip(last'.title) = <<>>)
          => /\ ~ last'.ok
             /\ last'.err = "ValidationError"
             /\ ~ last'.wrote
             /\ After = Before]_vars

\* C4: mark_done on a stored id sets that task's status to done, reports
\* success and changes nothing else, order included; on an id that is not
\* stored it reports failure and does not write.
C4_MarkDoneFrame ==
    [][Did("done") =>
          LET B == Before
              A == After
              hits == {i \in 1..Len(B) : B[i].id = last'.id}
          IN  IF hits # {}
              THEN /\ last'.ok
                   /\ Len(A) = Len(B)
                   /\ \A i \in 1..Len(B) :
                         IF i \in hits
                         THEN A[i] = [B[i] EXCEPT !.status = "done"]
                         ELSE A[i] = B[i]
              ELSE /\ ~ last'.ok
                   /\ ~ last'.wrote
                   /\ A = B
                   /\ file'.rows = file.rows]_vars

\* a task of two was just marked done and the other is still open
C4_Witness ==
    /\ last.op = "done" /\ last.ok
    /\ Len(Stored) = 2
    /\ \E i, j \in 1..2 :
          /\ Stored[i].id = last.id /\ Stored[i].status = "done"
          /\ Stored[j].id # last.id /\ Stored[j].status # "done"

C9_OnlyStatusChanges ==
    [][LET B == Before
           A == After
       IN  \A i \in 1..Len(B) :
              LET same == {j \in 1..Len(A) : A[j].id = B[i].id}
              IN  /\ same = {} =>
                        Did("delete") /\ last'.ok /\ last'.id = B[i].id
                  /\ \A j \in same :
                        /\ A[j].created_date = B[i].created_date
                        /\ [A[j] EXCEPT !.status = B[i].status] = B[i]
                        /\ A[j].status # B[i].status =>
                              /\ A[j].status = "done"
                              /\ Did("done") /\ last'.ok /\ last'.id = B[i].id]_vars

\* a task created on an earlier day, with a follow-up date, was just marked done
C9_Witness ==
    /\ last.op = "done" /\ last.ok
    /\ \E i \in 1..Len(Stored) :
          /\ Stored[i].id = last.id
          /\ Stored[i].status = "done"
          /\ Stored[i].created_date # isoformat(today)
          /\ Stored[i].follow_up_date # <<>>

Sorted(tasks) ==
    /\ \A i \in 1..Len(tasks) : int_ok(tasks[i].id)
    /\ \A i \in 1..(Len(tasks) - 1) : int(tasks[i].id) < int(tasks[i + 1].id)

\* the add just completed directly followed the delete of the task that had
\* the maximum id (Before is the store that delete left)
AddAfterDeleteOfMax ==
    /\ Did("add") /\ last'.ok
    /\ last.op = "delete" /\ last.ok
    /\ \A i \in 1..Len(Before) : int(Before[i].id) < int(last.id)

\* C10 (as claimed): the stored ids are strictly increasing, and deleting
\* the task with the maximum id makes the next add assign that same id.
C10_SortedAndSameIdAgain ==
    [][Sorted(After) /\ (AddAfterDeleteOfMax => last'.id = last.id)]_vars

\* C10 (amended): the stored ids are strictly increasing; every add assigns
\* one more than the maximum id stored (1 if the store is empty), so the add
\* after the delete of the maximum id k never assigns more than k, and
\* assigns k again exactly when k - 1 is still stored or k is 1.
C10_SortedAndIdAfterMax ==
    [][LET B == Before
           left == IF B = <<>> THEN 0
                   ELSE SetMax({int(B[i].id) : i \in 1..Len(B)})
       IN  /\ Sorted(After)
           /\ (Did("add") /\ last'.ok) => last'.id = str(left + 1)
           /\ AddAfterDeleteOfMax =>
                 /\ left + 1 <= int(last.id)
                 /\ (last'.id = last.id) <=> (left = int(last.id) - 1)]_vars

\* an add directly after the delete of the maximum id took a smaller id
C10_Witness ==
    /\ last.op = "add" /\ last.ok
    /\ last.follows # <<>>
    /\ \A i \in 1..Len(Stored) : int(Stored[i].id) < int(last.follows)

----------------------------------------------------------------------------------------------------------------------------------------
(* The read-only operations, applied to stores the command line's add can  *)
(* build (any status and priority it offers, any text as a date).          *)

StoredTask(i, status, priority, due, follow_up) ==
    [id             |-> str(i),
     title          |-> <<"a">>,
     priority       |-> priority,
     status         |-> status,
     due_date       |-> due,
     created_date   |-> isoformat(Day0),
     person         |-> <<>>,
     waiting_on     |-> <<>>,
     follow_up_date |-> follow_up,
     notes          |-> <<>>]

\* the sequences of at most MaxViewTasks profiles: one profile per task of a
\* store, whose ids are 1, 2, ... unless the profile gives them
ProfileSeqs(Profiles) == UNION {[1..n -> Profiles] : n \in 0..MaxViewTasks}

Read(out, ep, op) ==
    Report(op, ep, <<>>, Outcome(<<>>, <<>>, TRUE, "none", FALSE), out)

\* priority, due date and follow-up date of a task of the dashboards' stores
DateProfiles ==
    {<<"P1", Text_0228, <<>>>>,
     <<"P2", <<>>, Text_0229>>,
     <<"P3", Text_0230, Text_soon>>,
     <<"P1", Text_2_29, Text_0228>>}

DashTask(i, p) == StoredTask(i, p[1], p[2][1], p[2][2], p[2][3])

DashStores ==
    {[i \in 1..Len(f) |-> DashTask(i, f[i])] : f \in ProfileSeqs(STATUSES \X DateProfiles)}

DashInit ==
    /\ file \in {write_tasks(tasks) : tasks \in DashStores}
    /\ today \in {DayN(k) : k \in 0..MaxDays}
    /\ last = NoReport
    /\ local = [p \in Procs |-> Idle]
    /\ clock = 0

AppDashboard ==
    /\ file' = ensure_file(file)
    /\ last' = Read(dashboard_view(read_tasks(file), today), "app", "dashboard")
    /\ UNCHANGED <<today, local, clock>>

CliDashboard ==
    /\ file' = ensure_file(file)
    /\ last' = Read(dashboard(read_tasks(file), today), "cli", "dashboard")
    /\ UNCHANGED <<today, local, clock>>

DashNext ==
    \/ AppDashboard
    \/ CliDashboard

DashSpec == DashInit /\ [][DashNext]_vars

ListTask(i, p) == StoredTask(i, p[1], p[2], <<>>, <<>>)

ListStores ==
    {[i \in 1..Len(f) |-> ListTask(i, f[i])] : f \in ProfileSeqs(STATUSES \X PRIORITIES)}

ListInit ==
    /\ file \in {write_tasks(tasks) : tasks \in ListStores}
    /\ today = Day0
    /\ last = NoReport
    /\ local = [p \in Procs |-> Idle]
    /\ clock = 0

CliList ==
    \E status \in STATUSES \cup {NoChoice}, priority \in PRIORITIES \cup {NoChoice} :
        /\ file' = ensure_file(file)
        /\ last' = Read([status |-> status, priority |-> priority,
                         rows |-> list_tasks(read_tasks(file), status, priority)],
                        "cli", "list")
        /\ UNCHANGED <<today, local, clock>>

ListNext == CliList

ListSpec == ListInit /\ [][ListNext]_vars

\* the tasks of a collection at the positions in I, in the collection's order
RECURSIVE Pick(_, _)
Pick(tasks, I) ==
    IF tasks = <<>> THEN <<>>
    ELSE LET front == Pick(SubSeq(tasks, 1, Len(tasks) - 1), I)
         IN  IF Len(tasks) \in I THEN Append(front, tasks[Len(tasks)]) ELSE front

\* a date as a number that orders as the calendar does
DayNumber(dt) == dt.y * 10000 + dt.m * 100 + dt.d

\* texts that are no date: empty, no such day, not a date at all
NotDates == {<<>>, Text_0230, Text_soon}

\* C7: the dashboard summary is over the open tasks only: the open tasks,
\* those of priority P1, those whose due date parses to today, those whose
\* due date parses to a day before today, those waiting, and those whose
\* follow-up date parses to today or before; a task whose date is empty or
\* does not parse is in no date bucket, and nothing raises.
C7_DashboardSummary ==
    last.op = "dashboard" =>
        LET T == Stored
            open == {i \in 1..Len(T) : T[i].status # "done"}
            dueOf(i) == parse_date(T[i].due_date)
            followOf(i) == parse_date(T[i].follow_up_date)
            now == DayNumber(today)
            out == last.out
        IN  /\ last.ok /\ last.err = "none"
            /\ out.open_tasks = Pick(T, open)
            /\ out.p1_tasks = Pick(T, {i \in open : T[i].priority = "P1"})
            /\ out.due_today =
                  Pick(T, {i \in open : dueOf(i) # NoDate /\ DayNumber(dueOf(i)) = now})
            /\ out.overdue =
                  Pick(T, {i \in open : dueOf(i) # NoDate /\ DayNumber(dueOf(i)) < now})
            /\ out.waiting = Pick(T, {i \in open : T[i].status = "waiting"})
            /\ out.followups =
                  Pick(T, {i \in open : followOf(i) # NoDate /\ DayNumber(followOf(i)) <= now})
            /\ \A i \in 1..Len(T) :
                  /\ T[i].due_date \in NotDates =>
                        /\ \A j \in 1..Len(out.due_today) : out.due_today[j] # T[i]
                        /\ \A j \in 1..Len(out.overdue) : out.overdue[j] # T[i]
                  /\ T[i].follow_up_date \in NotDates =>
                        \A j \in 1..Len(out.followups) : out.followups[j] # T[i]

\* the command line's dashboard on two tasks due yesterday, one of them done:
\* one open task, overdue, and nothing due today
C7_Witness ==
    /\ last.op = "dashboard" /\ last.ep = "cli"
    /\ Len(Stored) = 2
    /\ Stored[1].status = "done" /\ Stored[2].status = "waiting"
    /\ Stored[1].due_date = Text_0228 /\ Stored[2].due_date = Text_0228
    /\ today = DayN(1)
    /\ Len(last.out.open_tasks) = 1
    /\ Len(last.out.overdue) = 1
    /\ Len(last.out.due_today) = 0
    /\ Len(last.out.waiting) = 1

\* C8: list returns exactly the stored tasks that match every filter given,
\* in stored order, all of them when no filter is given, and leaves the
\* stored collection as it was.
C8_ListFilters ==
    [][Did("list") =>
          LET out == last'.out
              B == Before
              match == {i \in 1..Len(B) :
                           /\ out.status # NoChoice => B[i].status = out.status
                           /\ out.priority # NoChoice => B[i].priority = out.priority}
          IN  /\ out.rows = Pick(B, match)
              /\ (out.status = NoChoice /\ out.priority = NoChoice) => out.rows = B
              /\ After = B
              /\ file'.rows = file.rows]_vars

\* both filters given: of two waiting tasks only the one of priority P1 is listed
C8_Witness ==
    /\ last.op = "list"
    /\ last.out.status = "waiting" /\ last.out.priority = "P1"
    /\ Len(Stored) = 2
    /\ Stored[1].status = "waiting" /\ Stored[1].priority = "P2"
    /\ Stored[2].status = "waiting" /\ Stored[2].priority = "P1"
    /\ last.out.rows = <<Stored[2]>>

----------------------------------------------------------------------------
(* next_id and the add that follows, on files as a user may have edited    *)
(* them: ids that are not numbers, or not unique, or zero-padded.          *)

IdTexts ==
    {<<"1">>, <<"2">>, <<"0", "1">>, <<"a">>, <<"1", "a">>, <<"sup2">>}

IdTask(i, text) == [StoredTask(i, "todo", "P2", <<>>, <<>>) EXCEPT !.id = text]

IdStores ==
    {[i \in 1..Len(f) |-> IdTask(i, f[i])] : f \in ProfileSeqs(IdTexts)}

IdInit ==
    /\ file \in {write_tasks(tasks) : tasks \in IdStores}
    /\ today = Day0
    /\ last = NoReport
    /\ local = [p \in Procs |-> Idle]
    /\ clock = 0

\* what a call of next_id reports: the number as str() prints it, or the error
NextIdReport(ep, n) ==
    Report("next_id", ep, <<>>,
           Outcome(<<>>, IF n.err = "none" THEN str(n.val) ELSE <<>>,
                   n.err = "none", n.err, FALSE),
           <<>>)

AppNextId ==
    /\ last' = NextIdReport("app", next_id(read_tasks(file)))
    /\ UNCHANGED <<file, today, local, clock>>

CliNextId ==
    /\ last' = NextIdReport("cli", cli_next_id(read_tasks(file)))
    /\ UNCHANGED <<file, today, local, clock>>

IdNext ==
    \/ AppNextId
    \/ CliNextId
    \/ AppAdd
    \/ CliAdd

IdSpec == IdInit /\ [][IdNext]_vars

\* one more than the greatest id that is all digits, 1 when there is none
ExpectedNextId(tasks) ==
    LET numbers == {int(tasks[i].id) : i \in {j \in 1..Len(tasks) : int_ok(tasks[j].id)}}
    IN  IF numbers = {} THEN 1 ELSE SetMax(numbers) + 1

\* C2 (as claimed): next_id returns 1 when no stored id is all digits and
\* otherwise the greatest numeric id plus one, ignoring the other ids, and
\* the add that follows assigns that value; for the dashboard and for the
\* command line.
C2_NextIdContract ==
    [][LET B == Before
           expected == str(ExpectedNextId(B))
       IN  /\ Did("next_id") => last'.err = "none" /\ last'.id = expected
           /\ (Did("add") /\ last'.err # "ValidationError") =>
                 /\ last'.ok
                 /\ last'.id = expected
                 /\ Len(After) = Len(B) + 1
                 /\ After[Len(After)].id = expected]_vars

----------------------------------------------------------------------------
(* Two processes, the dashboard and the command line, each running one     *)
(* operation on the same file with nothing to keep them apart: a step is   *)
(* one access to the file.                                                 *)

\* the stores the two processes start from
RaceStores ==
    {<<>>,
     <<StoredTask(1, "todo", "P2", <<>>, <<>>),
       StoredTask(2, "waiting", "P1", Text_0229, Text_0228)>>}

RaceInit ==
    /\ file \in {write_tasks(tasks) : tasks \in RaceStores}
    /\ today = Day0
    /\ last = NoReport
    /\ local = [p \in Procs |-> Idle]
    /\ clock = 0

\* the operations a process can run, with their arguments
Calls(p) ==
    IF p = "app"
    THEN ({"add"} \X AppAddInputs) \cup ({"done", "delete"} \X {str(n) : n \in IdInputs})
    ELSE ({"add"} \X CliAddInputs) \cup ({"done"} \X IdInputs)

\* the handler of a call, run on the tasks it read
Handler(p, op, arg, tasks) ==
    IF p = "app"
    THEN CASE op = "add" -> add_task_form(tasks, arg, today)
           [] op = "done" -> mark_done(tasks, arg)
           [] op = "delete" -> delete_task(tasks, arg)
    ELSE CASE op = "add" -> add_task(tasks, arg, today)
           [] op = "done" -> cli_mark_done(tasks, arg)

\* a handler that reads the file again at the moment it writes
HeldAtWrite(p) == read_tasks(file)

\* the tasks list a handler holds: what read_tasks() returned when it began
Held(p) == local[p].snap

\* read_tasks() at the start of an operation
Begin(p) ==
    /\ local[p].pc = "idle"
    /\ \E c \in Calls(p) :
          local' = [local EXCEPT ![p] =
                       [pc |-> "loaded", op |-> c[1], arg |-> c[2],
                        snap |-> read_tasks(file), res |-> Idle.res,
                        loadedAt |-> clock + 1, savedAt |-> 0]]
    /\ file' = ensure_file(file)
    /\ clock' = clock + 1
    /\ UNCHANGED <<today, last>>

\* the rest of the handler: it works on the tasks it holds and, unless it
\* failed, overwrites the file with them
Finish(p) ==
    /\ local[p].pc = "loaded"
    /\ LET r == Handler(p, local[p].op, local[p].arg, Held(p))
       IN  /\ file' = IF r.wrote THEN write_tasks(r.tasks) ELSE file
           /\ local' = [local EXCEPT ![p].pc = "done", ![p].res = r,
                                     ![p].savedAt = clock + 1]
    /\ clock' = clock + 1
    /\ UNCHANGED <<today, last>>

AppBegin == Begin("app")

AppFinish == Finish("app")

CliBegin == Begin("cli")

CliFinish == Finish("cli")

RaceNext ==
    \/ AppBegin
    \/ AppFinish
    \/ CliBegin
    \/ CliFinish

RaceSpec == RaceInit /\ [][RaceNext]_vars

\* both operations are over, both read the file before either wrote it, and
\* q's write came after p's
Raced(p, q) ==
    /\ p # q
    /\ local[p].pc = "done" /\ local[q].pc = "done"
    /\ local[p].res.wrote /\ local[q].res.wrote
    /\ local[p].loadedAt < local[p].savedAt /\ local[q].loadedAt < local[p].savedAt
    /\ local[p].savedAt < local[q].savedAt

\* C6: when two operations both read the file before either writes it, the
\* later write overwrites the earlier one: the file ends as if the earlier
\* operation had never run, though that operation may have reported success.
C6_LastWriteWins ==
    \A p, q \in Procs :
        Raced(p, q) =>
            /\ local[p].snap = local[q].snap
            /\ Stored = Handler(q, local[q].op, local[q].arg, local[p].snap).tasks

\* the command line added a task and said so, the dashboard's mark_done
\* wrote after it, and the added task is not in the file
C6_Witness ==
    /\ Raced("cli", "app")
    /\ local["cli"].op = "add" /\ local["cli"].res.ok
    /\ local["app"].op = "done" /\ local["app"].res.ok
    /\ Len(Stored) = Len(local["cli"].snap)
    /\ \A i \in 1..Len(Stored) : Stored[i].id # local["cli"].res.id

====
